---- MODULE Spec2Model ----
(***************************************************************************)
(* Model of the zabawa name crate (crates/name/src/lib.rs) and of the      *)
(* validators it uses (crates/validation/src/lib.rs).                      *)
(*                                                                         *)
(* A string is a sequence of characters; a character is a one-character    *)
(* TLA+ string, except the non-ASCII characters, written "U+00E9" (a       *)
(* letter) and "U+2003" (a whitespace).                                    *)
(* An Option<T> is a sequence of length at most one: <<>> is None and      *)
(* <<v>> is Some(v).                                                       *)
(***************************************************************************)
EXTENDS Integers, Sequences, FiniteSets, TLC

VARIABLES self, pc, op, arg, lenArgs, input, output, pos, translit, normalized,
          result, chained, nValidate, nNormalize, nBuild

vars == <<self, pc, op, arg, lenArgs, input, output, pos, translit, normalized,
          result, chained, nValidate, nNormalize, nBuild>>

(***************************************************************************)
(* Bounds of the model.                                                    *)
(***************************************************************************)
\* longest input text, in characters
MaxLen == 3
\* largest len / min / max handed to validate_length on its own
MaxNum == 4

\* the characters input texts are drawn from: a safe letter, an upper-case
\* letter, the literal dash, a whitespace, an unsafe sign, a non-ASCII letter
\* and a non-ASCII whitespace
InputChars == {"a", "A", "-", " ", "!", "U+00E9", "U+2003"}

\* the arguments with_min_length / with_max_length are called with
LengthArgs == {3}

None == <<>>
Some(v) == <<v>>

\* what the transliterator answers for a non-ASCII character: no mapping, an
\* empty replacement, one letter, an upper-case letter followed by a space
Replacements == {None, Some(<<>>), Some(<<"e">>), Some(<<"E", " ">>)}

RECURSIVE TextsUpTo(_)
TextsUpTo(n) ==
    IF n = 0 THEN {<<>>}
    ELSE LET shorter == TextsUpTo(n - 1)
         IN  shorter \cup {Append(s, c) : s \in {t \in shorter : Len(t) = n - 1}, c \in InputChars}

Texts == TextsUpTo(MaxLen)

(***************************************************************************)
(* Characters.                                                             *)
(***************************************************************************)
AsciiLowercase == {"a", "b", "c", "d", "e", "f", "g", "h", "i", "j", "k", "l", "m",
                   "n", "o", "p", "q", "r", "s", "t", "u", "v", "w", "x", "y", "z"}

AsciiDigit == {"0", "1", "2", "3", "4", "5", "6", "7", "8", "9"}

NonAscii == {"U+00E9", "U+2003"}

IsAscii(ch) == ch \notin NonAscii

IsWhitespace(ch) == ch \in {" ", "\t", "\n", "\r", "U+2003"}

ToAsciiLowercase(ch) ==
    CASE ch = "A" -> "a"
      [] ch = "E" -> "e"
      [] OTHER -> ch

IsNameSafeChar(ch) ==
    ch \in AsciiLowercase \/ ch \in AsciiDigit \/ ch = "-" \/ ch = "_"

\* bytes of the character in UTF-8
Utf8Len(ch) == IF IsAscii(ch) THEN 1 ELSE IF ch = "U+00E9" THEN 2 ELSE 3

RECURSIVE StrLen(_)
StrLen(s) == IF s = <<>> THEN 0 ELSE Utf8Len(Head(s)) + StrLen(Tail(s))

RECURSIVE TrimStart(_)
TrimStart(s) ==
    IF s = <<>> THEN s
    ELSE IF IsWhitespace(Head(s)) THEN TrimStart(Tail(s)) ELSE s

RECURSIVE TrimEnd(_)
TrimEnd(s) ==
    IF s = <<>> THEN s
    ELSE IF IsWhitespace(s[Len(s)]) THEN TrimEnd(SubSeq(s, 1, Len(s) - 1)) ELSE s

Trim(s) == TrimEnd(TrimStart(s))

(***************************************************************************)
(* Results and errors.                                                     *)
(***************************************************************************)
NoError == [kind |-> "none", min |-> 0, max |-> 0, actual |-> 0]

Untrimmed == [kind |-> "Untrimmed", min |-> 0, max |-> 0, actual |-> 0]

InvalidCharacters == [kind |-> "InvalidCharacters", min |-> 0, max |-> 0, actual |-> 0]

InvalidLengthError(min, max, actual) ==
    [kind |-> "InvalidLength", min |-> min, max |-> max, actual |-> actual]

Ok(v) == [ok |-> TRUE, val |-> v, err |-> NoError]

Err(e) == [ok |-> FALSE, val |-> <<>>, err |-> e]

NoResult == [ok |-> FALSE, val |-> <<>>, err |-> NoError]

\* Name::from_raw wraps the string unchanged
FromRaw(name) == name

(***************************************************************************)
(* crates/validation                                                       *)
(***************************************************************************)
ValidateLengthStrictMax(len, min, max) ==
    IF len < min \/ len >= max
    THEN Err(InvalidLengthError(min, max, len))
    ELSE Ok(<<>>)

ValidateLengthStrictMin(len, min, max) ==
    IF len <= min \/ len > max
    THEN Err(InvalidLengthError(min, max, len))
    ELSE Ok(<<>>)

ValidateLength(len, min, max) ==
    IF len < min \/ len > max
    THEN Err(InvalidLengthError(min, max, len))
    ELSE Ok(<<>>)

ValidateTrimmed(s) == StrLen(s) = StrLen(Trim(s))

(***************************************************************************)
(* crates/name: the character predicate and the normalizer                 *)
(***************************************************************************)
ValidateNameChars(s) == \A i \in 1..Len(s) : IsNameSafeChar(s[i])

PushSeparatorAlways(out) == Append(out, "-")

PushSeparator(out) ==
    IF out # <<>> /\ out[Len(out)] = "-" THEN out ELSE Append(out, "-")

ProcessCharDashSeparates(ch, out) ==
    LET lower == ToAsciiLowercase(ch)
    IN  IF IsNameSafeChar(lower) /\ lower # "-" THEN Append(out, lower) ELSE PushSeparator(out)

ProcessCharPushRaw(ch, out) ==
    IF IsNameSafeChar(ToAsciiLowercase(ch)) THEN Append(out, ch) ELSE PushSeparator(out)

ProcessChar(ch, out) ==
    LET lower == ToAsciiLowercase(ch)
    IN  IF IsNameSafeChar(lower) THEN Append(out, lower) ELSE PushSeparator(out)

RECURSIVE ProcessChars(_, _)
ProcessChars(s, out) ==
    IF s = <<>> THEN out ELSE ProcessChars(Tail(s), ProcessChar(Head(s), out))

\* deunicode::deunicode_char under the transliterator t
DeunicodeChar(t, ch) == t[ch]

MakeNameBodyDropUnmapped(t, ch, out) ==
    IF IsAscii(ch) THEN ProcessChar(ch, out)
    ELSE IF DeunicodeChar(t, ch) # None
         THEN ProcessChars(DeunicodeChar(t, ch)[1], out)
         ELSE out

\* the body of make_name's loop for one source character
MakeNameBody(t, ch, out) ==
    IF IsAscii(ch) THEN ProcessChar(ch, out)
    ELSE IF DeunicodeChar(t, ch) # None
         THEN ProcessChars(DeunicodeChar(t, ch)[1], out)
         ELSE PushSeparator(out)

RECURSIVE MakeName(_, _, _)
MakeName(t, s, out) ==
    IF s = <<>> THEN out ELSE MakeName(t, Tail(s), MakeNameBody(t, Head(s), out))

(***************************************************************************)
(* crates/name: DefaultNameBuilder                                         *)
(***************************************************************************)
DefaultMinLength == 2
DefaultMaxLength == 512

New == [min_length |-> Some(DefaultMinLength),
        max_length |-> Some(DefaultMaxLength),
        char_validation_enabled |-> TRUE,
        trim_validation_enabled |-> TRUE]

UnwrapOr(opt, default) == IF opt = None THEN default ELSE opt[1]

ValidateCharsFirst(b, s) ==
    IF b.trim_validation_enabled /\ ~ValidateTrimmed(s) THEN Err(Untrimmed)
    ELSE IF b.char_validation_enabled /\ ~ValidateNameChars(s) THEN Err(InvalidCharacters)
    ELSE IF b.min_length # None \/ b.max_length # None
         THEN ValidateLength(StrLen(s), UnwrapOr(b.min_length, 0),
                             UnwrapOr(b.max_length, StrLen(s)))
         ELSE Ok(<<>>)

Validate(b, s) ==
    IF b.trim_validation_enabled /\ ~ValidateTrimmed(s) THEN Err(Untrimmed)
    ELSE LET checked == IF b.min_length # None \/ b.max_length # None
                        THEN ValidateLength(StrLen(s), UnwrapOr(b.min_length, 0),
                                            UnwrapOr(b.max_length, StrLen(s)))
                        ELSE Ok(<<>>)
         IN  IF ~checked.ok THEN checked
             ELSE IF b.char_validation_enabled /\ ~ValidateNameChars(s)
                  THEN Err(InvalidCharacters)
                  ELSE Ok(<<>>)

RECURSIVE AsciiLowercased(_)
AsciiLowercased(s) ==
    IF s = <<>> THEN s ELSE <<ToAsciiLowercase(Head(s))>> \o AsciiLowercased(Tail(s))

CloneIntoLowercased(s) == AsciiLowercased(s)

\* str::clone_into: the branch of normalize without character validation
CloneInto(s) == s

\* the string normalize works on, after its first statement
NormalizeInput(b, s) == IF b.trim_validation_enabled THEN Trim(s) ELSE s

NormalizeWithoutSubstitution(b, t, s) == Ok(CloneInto(NormalizeInput(b, s)))

Normalize(b, t, s) ==
    IF b.char_validation_enabled
    THEN Ok(MakeName(t, NormalizeInput(b, s), <<>>))
    ELSE Ok(CloneInto(NormalizeInput(b, s)))

Build(b, s) ==
    LET validated == Validate(b, s)
    IN  IF ~validated.ok THEN validated ELSE Ok(FromRaw(s))

NormalizeName(t, s) == MakeName(t, Trim(s), <<>>)

(***************************************************************************)
(* State.                                                                  *)
(***************************************************************************)
NoTranslit == [c \in NonAscii |-> None]

Transliterators == [NonAscii -> Replacements]

Init ==
    /\ self = New
    /\ pc = "idle"
    /\ op = "none"
    /\ arg = <<>>
    /\ lenArgs = <<>>
    /\ input = <<>>
    /\ output = <<>>
    /\ pos = 0
    /\ translit = NoTranslit
    /\ normalized = <<>>
    /\ result = NoResult
    /\ chained = FALSE
    /\ nValidate = 0
    /\ nNormalize = 0
    /\ nBuild = 0

call == <<pc, op, arg, lenArgs, input, output, pos, translit, normalized,
          result, chained, nValidate, nNormalize, nBuild>>

(***************************************************************************)
(* The chained setters of DefaultNameBuilder.                              *)
(***************************************************************************)
WithMinLength(min) ==
    /\ pc = "idle"
    /\ self' = [self EXCEPT !.min_length = Some(min)]
    /\ UNCHANGED call

WithoutMinLength ==
    /\ pc = "idle"
    /\ self' = [self EXCEPT !.min_length = None]
    /\ UNCHANGED call

WithMaxLength(max) ==
    /\ pc = "idle"
    /\ self' = [self EXCEPT !.max_length = Some(max)]
    /\ UNCHANGED call

WithoutMaxLength ==
    /\ pc = "idle"
    /\ self' = [self EXCEPT !.max_length = None]
    /\ UNCHANGED call

WithCharValidation(enabled) ==
    /\ pc = "idle"
    /\ self' = [self EXCEPT !.char_validation_enabled = enabled]
    /\ UNCHANGED call

WithTrimValidation(enabled) ==
    /\ pc = "idle"
    /\ self' = [self EXCEPT !.trim_validation_enabled = enabled]
    /\ UNCHANGED call

\* the caller drops the result and is ready for the next call
Reset ==
    /\ pc = "done"
    /\ pc' = "idle"
    /\ op' = "none"
    /\ arg' = <<>>
    /\ lenArgs' = <<>>
    /\ input' = <<>>
    /\ output' = <<>>
    /\ pos' = 0
    /\ translit' = NoTranslit
    /\ normalized' = <<>>
    /\ result' = NoResult
    /\ chained' = FALSE
    /\ nValidate' = 0
    /\ nNormalize' = 0
    /\ nBuild' = 0
    /\ UNCHANGED self

(***************************************************************************)
(* validate_length on its own.                                             *)
(***************************************************************************)
CallValidateLength(len, min, max) ==
    /\ pc = "idle"
    /\ op' = "validate_length"
    /\ lenArgs' = <<len, min, max>>
    /\ result' = ValidateLength(len, min, max)
    /\ pc' = "done"
    /\ UNCHANGED <<self, arg, input, output, pos, translit, normalized, chained,
                   nValidate, nNormalize, nBuild>>

NextLen ==
    \/ pc = "idle" /\ \E len \in 0..MaxNum, min \in 0..MaxNum, max \in 0..MaxNum :
                          CallValidateLength(len, min, max)
    \/ Reset

SpecLen == Init /\ [][NextLen]_vars

(***************************************************************************)
(* validate, build and build_with_normalize.                               *)
(***************************************************************************)
CallValidate(text) ==
    /\ pc = "idle"
    /\ op' = "validate"
    /\ arg' = text
    /\ nValidate' = nValidate + 1
    /\ result' = Validate(self, text)
    /\ pc' = "done"
    /\ UNCHANGED <<self, lenArgs, input, output, pos, translit, normalized, chained,
                   nNormalize, nBuild>>

CallBuild(text) ==
    /\ pc = "idle"
    /\ op' = "build"
    /\ arg' = text
    /\ nValidate' = nValidate + 1
    /\ nBuild' = nBuild + 1
    /\ result' = Build(self, text)
    /\ pc' = "done"
    /\ UNCHANGED <<self, lenArgs, input, output, pos, translit, normalized, chained,
                   nNormalize>>

CallBuildWithNormalizeAlways(text) ==
    /\ pc = "idle"
    /\ op' = "build_with_normalize"
    /\ arg' = text
    /\ nValidate' = nValidate + 1
    /\ pc' = "normalize"
    /\ UNCHANGED <<self, lenArgs, input, output, pos, translit, normalized, result,
                   chained, nNormalize, nBuild>>

\* build_with_normalize up to its early return
CallBuildWithNormalize(text) ==
    /\ pc = "idle"
    /\ op' = "build_with_normalize"
    /\ arg' = text
    /\ nValidate' = nValidate + 1
    /\ IF Validate(self, text).ok
       THEN /\ result' = Ok(FromRaw(text))
            /\ pc' = "done"
       ELSE /\ pc' = "normalize"
            /\ UNCHANGED result
    /\ UNCHANGED <<self, lenArgs, input, output, pos, translit, normalized, chained,
                   nNormalize, nBuild>>

\* let normalized_input = self.normalize(input.as_ref())?;
BwnNormalize(t) ==
    /\ pc = "normalize"
    /\ translit' = t
    /\ nNormalize' = nNormalize + 1
    /\ LET n == Normalize(self, t, arg)
       IN  IF n.ok
           THEN /\ normalized' = n.val
                /\ pc' = "build"
                /\ UNCHANGED result
           ELSE /\ result' = n
                /\ pc' = "done"
                /\ UNCHANGED normalized
    /\ UNCHANGED <<self, op, arg, lenArgs, input, output, pos, chained, nValidate, nBuild>>

BwnBuildRetry ==
    /\ pc = "build"
    /\ nValidate' = nValidate + 1
    /\ nBuild' = nBuild + 1
    /\ IF ~Build(self, normalized).ok /\ nNormalize < 2
       THEN /\ pc' = "normalize"
            /\ UNCHANGED result
       ELSE /\ result' = Build(self, normalized)
            /\ pc' = "done"
    /\ UNCHANGED <<self, op, arg, lenArgs, input, output, pos, translit, normalized,
                   chained, nNormalize>>

\* self.build(normalized_input)
BwnBuild ==
    /\ pc = "build"
    /\ nValidate' = nValidate + 1
    /\ nBuild' = nBuild + 1
    /\ result' = Build(self, normalized)
    /\ pc' = "done"
    /\ UNCHANGED <<self, op, arg, lenArgs, input, output, pos, translit, normalized,
                   chained, nNormalize>>

NextBuild ==
    \/ \E min \in LengthArgs : WithMinLength(min)
    \/ WithoutMinLength
    \/ \E max \in LengthArgs : WithMaxLength(max)
    \/ WithoutMaxLength
    \/ \E enabled \in BOOLEAN : WithCharValidation(enabled)
    \/ \E enabled \in BOOLEAN : WithTrimValidation(enabled)
    \/ pc = "idle" /\ \E text \in Texts : CallValidate(text)
    \/ pc = "idle" /\ \E text \in Texts : CallBuild(text)
    \/ pc = "idle" /\ \E text \in Texts : CallBuildWithNormalize(text)
    \/ pc = "normalize" /\ \E t \in Transliterators : BwnNormalize(t)
    \/ BwnBuild
    \/ Reset

SpecBuild == Init /\ [][NextBuild]_vars

(***************************************************************************)
(* normalize_name, DefaultNameBuilder::normalize and make_name, one source *)
(* character of make_name at a time.                                       *)
(***************************************************************************)
CallNormalizeName(text, t) ==
    /\ pc = "idle"
    /\ op' = "normalize_name"
    /\ arg' = text
    /\ translit' = t
    /\ input' = Trim(text)
    /\ output' = <<>>
    /\ pos' = 0
    /\ pc' = "make_name"
    /\ UNCHANGED <<self, lenArgs, normalized, result, chained, nValidate, nNormalize, nBuild>>

CallNormalize(text, t) ==
    /\ pc = "idle"
    /\ op' = "normalize"
    /\ arg' = text
    /\ translit' = t
    /\ input' = NormalizeInput(self, text)
    /\ pos' = 0
    /\ nNormalize' = nNormalize + 1
    /\ IF self.char_validation_enabled
       THEN /\ output' = <<>>
            /\ pc' = "make_name"
       ELSE /\ output' = CloneInto(NormalizeInput(self, text))
            /\ pc' = "return"
    /\ UNCHANGED <<self, lenArgs, normalized, result, chained, nValidate, nBuild>>

\* one iteration of: for ch in input.chars()
MakeNameLoop ==
    /\ pc = "make_name"
    /\ pos < Len(input)
    /\ output' = MakeNameBody(translit, input[pos + 1], output)
    /\ pos' = pos + 1
    /\ UNCHANGED <<self, pc, op, arg, lenArgs, input, translit, normalized, result,
                   chained, nValidate, nNormalize, nBuild>>

MakeNameReturn ==
    /\ pc = "make_name"
    /\ pos = Len(input)
    /\ pc' = "return"
    /\ UNCHANGED <<self, op, arg, lenArgs, input, output, pos, translit, normalized,
                   result, chained, nValidate, nNormalize, nBuild>>

\* normalize_name returns the buffer, normalize returns Ok(buffer)
NormalizeReturn ==
    /\ pc = "return"
    /\ normalized' = output
    /\ result' = Ok(output)
    /\ pc' = "done"
    /\ UNCHANGED <<self, op, arg, lenArgs, input, output, pos, translit, chained,
                   nValidate, nNormalize, nBuild>>

\* the caller hands the string it got back to the same function
NormalizeAgain ==
    /\ pc = "done"
    /\ op \in {"normalize", "normalize_name"}
    /\ ~chained
    /\ chained' = TRUE
    /\ arg' = normalized
    /\ input' = IF op = "normalize" THEN NormalizeInput(self, normalized) ELSE Trim(normalized)
    /\ pos' = 0
    /\ result' = NoResult
    /\ nNormalize' = IF op = "normalize" THEN nNormalize + 1 ELSE nNormalize
    /\ IF op = "normalize_name" \/ self.char_validation_enabled
       THEN /\ output' = <<>>
            /\ pc' = "make_name"
       ELSE /\ output' = CloneInto(NormalizeInput(self, normalized))
            /\ pc' = "return"
    /\ UNCHANGED <<self, op, lenArgs, translit, normalized, nValidate, nBuild>>

NextNorm ==
    \/ \E enabled \in BOOLEAN : WithCharValidation(enabled)
    \/ \E enabled \in BOOLEAN : WithTrimValidation(enabled)
    \/ pc = "idle" /\ \E text \in Texts, t \in Transliterators : CallNormalizeName(text, t)
    \/ pc = "idle" /\ \E text \in Texts, t \in Transliterators : CallNormalize(text, t)
    \/ MakeNameLoop
    \/ MakeNameReturn
    \/ NormalizeReturn
    \/ NormalizeAgain
    \/ Reset

SpecNorm == Init /\ [][NextNorm]_vars

(***************************************************************************)
(* Properties.                                                             *)
(***************************************************************************)
\* no whitespace at either end of s
IsTrimmedText(s) == s = <<>> \/ (~IsWhitespace(s[1]) /\ ~IsWhitespace(s[Len(s)]))

\* the byte length of s is inside the bounds b configures
InBounds(b, s) ==
    /\ b.min_length = None \/ StrLen(s) >= b.min_length[1]
    /\ b.max_length = None \/ StrLen(s) <= b.max_length[1]

\* the normalizer answers the source character ch with a separator only
IsUnsafeSource(t, ch) ==
    IF IsAscii(ch) THEN ~IsNameSafeChar(ToAsciiLowercase(ch)) ELSE t[ch] = None

\* C1: build_with_normalize of a text that validate accepts returns that very
\* text as the Name, and never reaches normalize.
C1_ValidInputIsNotNormalized ==
    (op = "build_with_normalize" /\ Validate(self, arg).ok)
        => (pc = "done" /\ result = Ok(arg) /\ nNormalize = 0 /\ normalized = <<>>)

C1_Witness ==
    /\ op = "build_with_normalize"
    /\ pc = "done"
    /\ Validate(self, arg).ok
    /\ Len(arg) >= 2
    /\ result.ok
    /\ result.val = arg

\* C2: build of a text of name-safe characters, without boundary whitespace and
\* with its length inside the configured bounds, returns the text unchanged;
\* when validate fails, build fails with validate's error.
C2_BuildIsIdentityOnValid ==
    (op = "build" /\ pc = "done")
        => /\ (ValidateNameChars(arg) /\ IsTrimmedText(arg) /\ InBounds(self, arg))
                => result = Ok(arg)
           /\ ~Validate(self, arg).ok
                => (~result.ok /\ result.err = Validate(self, arg).err)

C2_Witness ==
    /\ op = "build"
    /\ pc = "done"
    /\ self.min_length # None
    /\ StrLen(arg) = self.min_length[1]
    /\ ValidateNameChars(arg)
    /\ result = Ok(arg)

\* C3: when the first validate fails, build_with_normalize calls normalize
\* once and build once on the normalized string and returns what that build
\* returns, a second validation failure included; no execution runs validate
\* more than twice or normalize more than once.
C3_SingleRetry ==
    /\ nValidate <= 2
    /\ nNormalize <= 1
    /\ (op = "build_with_normalize" /\ pc = "done" /\ ~Validate(self, arg).ok)
         => /\ nValidate = 2
            /\ nNormalize = 1
            /\ nBuild = 1
            /\ normalized = Normalize(self, translit, arg).val
            /\ result = Build(self, normalized)
            /\ ~Validate(self, normalized).ok => result = Validate(self, normalized)

C3_Witness ==
    /\ op = "build_with_normalize"
    /\ pc = "done"
    /\ ~Validate(self, arg).ok
    /\ normalized # arg
    /\ nNormalize = 1
    /\ ~result.ok
    /\ result.err.kind = "InvalidLength"

\* C4: validate reports the first failing check in the order trim, length,
\* charset: an untrimmed text gives Untrimmed whenever the trim check is on, a
\* trimmed text with a length out of bounds gives InvalidLength whatever its
\* characters, and InvalidCharacters is given only if trim and length passed
\* or were off.
C4_FirstFailingCheckWins ==
    (op = "validate" /\ pc = "done")
        => /\ (self.trim_validation_enabled /\ ~IsTrimmedText(arg))
                => result = Err(Untrimmed)
           /\ (IsTrimmedText(arg) /\ ~InBounds(self, arg))
                => (~result.ok /\ result.err.kind = "InvalidLength")
           /\ (~result.ok /\ result.err.kind = "InvalidCharacters")
                => /\ ~self.trim_validation_enabled \/ IsTrimmedText(arg)
                   /\ InBounds(self, arg)

C4_Witness ==
    /\ op = "validate"
    /\ pc = "done"
    /\ self.trim_validation_enabled
    /\ self.char_validation_enabled
    /\ ~IsTrimmedText(arg)
    /\ ~InBounds(self, arg)
    /\ ~ValidateNameChars(arg)
    /\ result = Err(Untrimmed)

\* C5: whatever the transliterator answers, the buffer make_name fills for
\* normalize_name, and for normalize with character validation on, holds only
\* name-safe characters after every source character, and so does the result.
C5_OutputIsNameSafe ==
    (op = "normalize_name" \/ (op = "normalize" /\ self.char_validation_enabled))
        => /\ \A i \in 1..Len(output) : IsNameSafeChar(output[i])
           /\ pc = "done" => \A i \in 1..Len(result.val) : IsNameSafeChar(result.val[i])

C5_Witness ==
    /\ op = "normalize"
    /\ pc = "make_name"
    /\ pos >= 2
    /\ ~IsAscii(input[pos])
    /\ translit[input[pos]] = Some(<<"E", " ">>)
    /\ input[pos - 1] = "A"
    /\ Len(output) >= 3

\* a maximal run of unsafe-or-unmapped source characters ends at pos
RunEndsAtPos ==
    /\ pc = "make_name"
    /\ pos > 0
    /\ IsUnsafeSource(translit, input[pos])
    /\ pos = Len(input) \/ ~IsUnsafeSource(translit, input[pos + 1])

\* where the run that ends at pos starts
RunStart ==
    CHOOSE i \in 1..pos :
        /\ \A k \in i..pos : IsUnsafeSource(translit, input[k])
        /\ i = 1 \/ ~IsUnsafeSource(translit, input[i - 1])

\* the buffer as it was when the run started
OutputBeforeRun == MakeName(translit, SubSeq(input, 1, RunStart - 1), <<>>)

\* C6 as stated: every maximal run of unsafe-or-unmapped source characters
\* adds exactly one "-" to the output, whatever precedes it.
C6_RunAddsOneSeparator ==
    RunEndsAtPos => output = Append(OutputBeforeRun, "-")

\* C6 amended: a maximal run of unsafe-or-unmapped source characters adds
\* exactly one "-" when the output before the run is empty or ends with
\* another character, and adds nothing when it already ends with "-".
C6_RunAddsOneSeparatorUnlessDash ==
    RunEndsAtPos =>
        output = IF OutputBeforeRun # <<>> /\ OutputBeforeRun[Len(OutputBeforeRun)] = "-"
                 THEN OutputBeforeRun
                 ELSE Append(OutputBeforeRun, "-")

C6_Witness ==
    /\ RunEndsAtPos
    /\ pos - RunStart >= 1
    /\ OutputBeforeRun # <<>>
    /\ OutputBeforeRun[Len(OutputBeforeRun)] # "-"
    /\ output = Append(OutputBeforeRun, "-")

\* C7 as stated: a text of unsafe characters only normalizes to "-". Read in
\* the claim's favour: the text is not empty and unsafe means what the
\* normalizer answers with a separator, which no name-safe character is.
C7_OnlyUnsafeGivesDash ==
    (/\ op = "normalize_name"
     /\ pc = "done"
     /\ arg # <<>>
     /\ \A i \in 1..Len(arg) : ~IsNameSafeChar(arg[i]) /\ IsUnsafeSource(translit, arg[i]))
        => result.val = <<"-">>

\* C7 amended: a text that is not empty after trimming and holds only
\* characters the normalizer answers with a separator (ASCII characters whose
\* lower-case form is not name-safe, non-ASCII characters without a
\* transliteration) normalizes to "-".
C7_OnlySeparatorSourcesGiveDash ==
    (/\ op = "normalize_name" \/ (op = "normalize" /\ self.char_validation_enabled)
     /\ pc = "done"
     /\ \A i \in 1..Len(arg) : IsUnsafeSource(translit, arg[i])
     /\ IF op = "normalize_name" \/ self.trim_validation_enabled
        THEN \E i \in 1..Len(arg) : ~IsWhitespace(arg[i])
        ELSE arg # <<>>)
        => result.val = <<"-">>

C7_Witness ==
    /\ op = "normalize_name"
    /\ pc = "done"
    /\ ~chained
    /\ Len(arg) = MaxLen
    /\ \A i \in 1..Len(arg) : IsUnsafeSource(translit, arg[i])
    /\ \E i \in 1..Len(arg) : ~IsAscii(arg[i])
    /\ \E i \in 1..Len(arg) : arg[i] = "!"
    /\ result.val = <<"-">>

C9_NormalizeFixedPoint ==
    (/\ op \in {"normalize", "normalize_name"}
     /\ pc = "done"
     /\ ValidateNameChars(arg)
     /\ IsTrimmedText(arg))
        => (result.ok /\ result.val = arg)

C9_Witness ==
    /\ op = "normalize_name"
    /\ pc = "done"
    /\ chained
    /\ ValidateNameChars(arg)
    /\ Len(arg) >= 4
    /\ arg[1] = "-"
    /\ arg[2] = "-"
    /\ result.val = arg

\* C10: validate_length(len, min, max) succeeds exactly when min <= len <= max
\* and otherwise fails with InvalidLengthError {min, max, actual: len}.
C10_ValidateLengthInclusive ==
    (op = "validate_length" /\ pc = "done")
        => LET len == lenArgs[1]
               min == lenArgs[2]
               max == lenArgs[3]
           IN  /\ result.ok <=> (min <= len /\ len <= max)
               /\ ~result.ok =>
                    result.err = [kind |-> "InvalidLength", min |-> min, max |-> max,
                                  actual |-> len]

C10_Witness ==
    /\ op = "validate_length"
    /\ pc = "done"
    /\ lenArgs[1] = lenArgs[3]
    /\ lenArgs[2] < lenArgs[3]
    /\ result.ok

\* C11: with character validation on, whatever the other options and the
\* text, build_with_normalize succeeds or fails with InvalidLength; it never
\* returns Untrimmed or InvalidCharacters, and the string it retries with
\* holds only name-safe characters, so no whitespace at either end.
C11_OnlyLengthErrorSurvivesNormalize ==
    (op = "build_with_normalize" /\ self.char_validation_enabled)
        => /\ pc = "build" =>
                /\ \A i \in 1..Len(normalized) : IsNameSafeChar(normalized[i])
                /\ IsTrimmedText(normalized)
           /\ pc = "done" => (result.ok \/ result.err.kind = "InvalidLength")

C11_Witness ==
    /\ op = "build_with_normalize"
    /\ pc = "done"
    /\ self.char_validation_enabled
    /\ ~self.trim_validation_enabled
    /\ Validate(self, arg).err.kind = "InvalidCharacters"
    /\ IsWhitespace(arg[1])
    /\ \E i \in 1..Len(arg) : ~IsAscii(arg[i])
    /\ nNormalize = 1
    /\ result.ok
    /\ result.val = normalized

====
